---------------------------- MODULE Spec2Model ----------------------------
(***************************************************************************)
(* A model of src/streamlit.py: the dashboard script that, on every pass,  *)
(* downloads one close-price series per presidential term, derives the     *)
(* return series and its summary statistics, runs a one-way ANOVA over the *)
(* non-empty return series and renders the results.                        *)
(*                                                                         *)
(* Numbers.  A float is a record with a field kind:                        *)
(*   "num"   the rational n/d (d > 0, lowest terms),                       *)
(*   "nan", "inf", "-inf"   the IEEE special values,                       *)
(*   "sqrt"  the non-negative real sqrt(n/d),                              *)
(*   "quot"  the finite real (mn/md) / sqrt(vn/vd), with vn > 0,           *)
(*   "sf"    the survival function of the F distribution with (dfn, dfd)   *)
(*           degrees of freedom taken at the rational n/d,                 *)
(*   "finite" a finite float whose value the model does not compute.       *)
(* Arithmetic is exact: rounding of binary floating point is not modelled. *)
(*                                                                         *)
(* The market-data provider, the statistics library and the dashboard      *)
(* framework are external.  The provider is a black box that answers a     *)
(* download with any series of positive prices, as a Series or as a        *)
(* one-column DataFrame (the script handles both, lines 47-48).  Where the *)
(* behaviour of the statistics library depends on its release (the         *)
(* normality test on fewer than three observations either raises or        *)
(* answers not-a-number), both outcomes are possible.                      *)
(***************************************************************************)
EXTENDS Integers, Sequences, FiniteSets

VARIABLES
    pc,                 \* position of the script
    idx,                \* position of the period loop in presidents.items()
    ticker,             \* line 35
    interval,           \* line 36
    fetch_call,         \* arguments of the last yf.download call, line 44
    data,               \* line 44 / 48
    returns,            \* line 50 / 110
    assets,             \* line 31 / 70
    summary_stats,      \* line 32 / 59
    df_summary,         \* line 73
    anova_args,         \* the groups handed to stats.f_oneway, line 78
    anova,              \* line 78
    display,            \* what the pass has put on the page so far
    selected_president, \* line 108
    error               \* the uncaught exception that ended the pass, if any

vars == <<pc, idx, ticker, interval, fetch_call, data, returns, assets,
          summary_stats, df_summary, anova_args, anova, display,
          selected_president, error>>

---------------------------------------------------------------------------
(* Bounds of the model.                                                    *)

\* Longest price series of the single-period specification SpecPeriod.
MaxLen == 5
\* Largest price of the single-period specification SpecPeriod.
MaxPrice == 4
\* Most price observations the provider returns over one pass (Spec).
MaxPoints == 7

\* Prices the provider returns in the whole-pass specification Spec.
PassPrices == {1, 2}

---------------------------------------------------------------------------
(* Exact rational arithmetic.                                              *)

Abs(x) == IF x < 0 THEN -x ELSE x

RECURSIVE GCD(_, _)
GCD(a, b) == IF b = 0 THEN a ELSE GCD(b, a % b)

R(n, d) ==
    LET s == IF d < 0 THEN -1 ELSE 1
        g == GCD(Abs(n), Abs(d))
    IN  [kind |-> "num", n |-> (s * n) \div g, d |-> (s * d) \div g]

NaN == [kind |-> "nan"]
PosInf == [kind |-> "inf"]
NegInf == [kind |-> "-inf"]
Finite == [kind |-> "finite"]
Zero == R(0, 1)
One == R(1, 1)

IsNaN(x) == x.kind = "nan"

RAdd(a, b) ==
    LET g == GCD(a.d, b.d)
        l == (a.d \div g) * b.d
    IN  R(a.n * (l \div a.d) + b.n * (l \div b.d), l)

RNeg(a) == R(-a.n, a.d)

RSub(a, b) == RAdd(a, RNeg(b))

RMul(a, b) ==
    LET g1 == GCD(Abs(a.n), b.d)
        g2 == GCD(Abs(b.n), a.d)
    IN  IF a.n = 0 \/ b.n = 0 THEN Zero
        ELSE R((a.n \div g1) * (b.n \div g2), (a.d \div g2) * (b.d \div g1))

\* b is not zero
RDiv(a, b) == RMul(a, R(b.d, b.n))

RLe(a, b) == RSub(a, b).n <= 0

RECURSIVE RSum(_)
RSum(s) == IF s = <<>> THEN Zero ELSE RAdd(Head(s), RSum(Tail(s)))

RECURSIVE RProd(_)
RProd(s) == IF s = <<>> THEN One ELSE RMul(Head(s), RProd(Tail(s)))

SeqsUpTo(S, n) == UNION {[1..k -> S] : k \in 0..n}

---------------------------------------------------------------------------
(* Configuration, lines 23-28 and 35-36.                                   *)

PresidentNames ==
    <<"Jacques Chirac", "Nicolas Sarkozy", "Francois Hollande", "Emmanuel Macron">>

presidents ==
    [p \in {PresidentNames[i] : i \in 1..4} |->
        CASE p = "Jacques Chirac" ->
                [start |-> "1995-01-01", end |-> "2006-12-31", color |-> "blue"]
          [] p = "Nicolas Sarkozy" ->
                [start |-> "2007-01-01", end |-> "2011-12-31", color |-> "green"]
          [] p = "Francois Hollande" ->
                [start |-> "2012-01-01", end |-> "2016-12-31", color |-> "orange"]
          [] p = "Emmanuel Macron" ->
                [start |-> "2017-01-01", end |-> "2024-12-31", color |-> "red"]]

NumPresidents == Len(PresidentNames)

DefaultTicker == "^FCHI"
Tickers == {"^FCHI", "^GSPC"}

IntervalOptions == <<"Mois", "Semaine", "Jour">>
DefaultInterval == IntervalOptions[1]

None == [kind |-> "none"]
NoError == [type |-> "none", line |-> 0]
EmptyDict == [p \in {} |-> <<>>]

---------------------------------------------------------------------------
(* pandas: the operations of the period loop, lines 47-56.                 *)

Series(values) == [kind |-> "Series", values |-> values]
DataFrame(values) == [kind |-> "DataFrame", values |-> values]
Scalar(values) == [kind |-> "scalar", values |-> values]

\* DataFrame.squeeze() of a one-column frame: a frame of exactly one row
\* squeezes to a scalar, any other to a Series.
Squeeze(d) ==
    IF d.kind = "DataFrame"
    THEN IF Len(d.values) = 1 THEN Scalar(d.values) ELSE Series(d.values)
    ELSE d

\* Series.pct_change(): the first element has no predecessor.
PctChange(p) ==
    [i \in 1..Len(p) |->
        IF i = 1 THEN NaN ELSE RSub(RDiv(R(p[i], 1), R(p[i - 1], 1)), One)]

\* Series.dropna()
DropNa(s) == SelectSeq(s, LAMBDA x : ~IsNaN(x))

\* Series.mean()
Mean(r) == IF r = <<>> THEN NaN ELSE RDiv(RSum(r), R(Len(r), 1))

\* the sample variance (ddof = 1) of at least two observations
Variance(r) ==
    LET m == Mean(r)
        sq == [i \in 1..Len(r) |-> RMul(RSub(r[i], m), RSub(r[i], m))]
    IN  RDiv(RSum(sq), R(Len(r) - 1, 1))

\* Series.std(): sample standard deviation, undefined below two observations.
Std(r) ==
    IF Len(r) < 2 THEN NaN
    ELSE LET v == Variance(r) IN [kind |-> "sqrt", n |-> v.n, d |-> v.d]

IsZero(x) == x.kind \in {"num", "sqrt"} /\ x.n = 0

\* mean / vol on numpy floats: no exception, IEEE results.
Sharpe(mean, vol) ==
    IF IsNaN(mean) \/ IsNaN(vol) THEN NaN
    ELSE IF IsZero(vol)
         THEN IF mean.n = 0 THEN NaN
              ELSE IF mean.n > 0 THEN PosInf ELSE NegInf
         ELSE [kind |-> "quot", mn |-> mean.n, md |-> mean.d,
               vn |-> vol.n, vd |-> vol.d]

\* The total performance taken from the second price instead of the first.
TotalPerformanceFromSecond(p) ==
    IF Len(p) < 2 THEN Zero
    ELSE RSub(RDiv(R(p[Len(p)], 1), R(p[2], 1)), One)

\* data.iloc[-1] / data.iloc[0] - 1, on a non-empty series
TotalPerformance(p) == RSub(RDiv(R(p[Len(p)], 1), R(p[1], 1)), One)

IsConstant(r) == \A i \in 1..Len(r) : r[i] = r[1]

\* Series.skew(): undefined below three observations, 0 for no spread.
Skew(r) ==
    IF Len(r) < 3 THEN NaN ELSE IF IsConstant(r) THEN Zero ELSE Finite

\* Series.kurt(): undefined below four observations, 0 for no spread.
Kurt(r) ==
    IF Len(r) < 4 THEN NaN ELSE IF IsConstant(r) THEN Zero ELSE Finite

\* stats.shapiro(returns).pvalue, or "raise" for a ValueError.  Below three
\* observations the library raises or answers not-a-number, by release.
ShapiroOutcomes(r) ==
    IF Len(r) < 3 THEN {[kind |-> "raise"], NaN} ELSE {Finite}

SummaryRecord(name, mean, vol, perf, sharpe, skew, kurt, pvalue) ==
    [President |-> name, MeanReturn |-> mean, Volatility |-> vol,
     TotalPerformance |-> perf, SharpeRatio |-> sharpe, Skewness |-> skew,
     Kurtosis |-> kurt, NormalityPValue |-> pvalue]

---------------------------------------------------------------------------
(* State.                                                                  *)

\* The script has run lines 13-39 with the widgets at their defaults.
Init ==
    /\ pc = "loop"
    /\ idx = 1
    /\ ticker = DefaultTicker
    /\ interval = DefaultInterval
    /\ fetch_call = None
    /\ data = None
    /\ returns = None
    /\ assets = EmptyDict
    /\ summary_stats = <<>>
    /\ df_summary = None
    /\ anova_args = None
    /\ anova = None
    /\ display = {}
    /\ selected_president = None
    /\ error = NoError

\* Price observations received so far in this pass: a period that was
\* summarized had one more price than it has returns.
RECURSIVE PointsUsed(_, _)
PointsUsed(a, n) ==
    IF n = 0 THEN 0 ELSE Len(a[PresidentNames[n]]) + 1 + PointsUsed(a, n - 1)

Crash(type, line) ==
    /\ pc' = "crashed"
    /\ error' = [type |-> type, line |-> line]

\* line 44: yf.download(...)['Close']
Download ==
    /\ pc = "loop"
    /\ \E values \in SeqsUpTo(PassPrices, MaxPoints - PointsUsed(assets, idx - 1)),
          kind \in {"Series", "DataFrame"} :
            data' = [kind |-> kind, values |-> values]
    /\ fetch_call' = [kind |-> "call", ticker |-> ticker,
                      start |-> presidents[PresidentNames[idx]].start,
                      end |-> presidents[PresidentNames[idx]].end,
                      interval |-> interval]
    /\ pc' = "body"
    /\ UNCHANGED <<idx, ticker, interval, returns, assets, summary_stats,
                   df_summary, anova_args, anova, display, selected_president,
                   error>>

\* lines 47-70: one iteration of the period loop on the downloaded data
Body ==
    /\ pc = "body"
    /\ LET name == PresidentNames[idx]
           sq == Squeeze(data)
           rets == DropNa(PctChange(sq.values))
           vol == Std(rets)
           mean == Mean(rets)
       IN  /\ data' = sq
           /\ \/ /\ sq.kind = "scalar"     \* line 50: a float has no pct_change
                 /\ Crash("AttributeError", 50)
                 /\ UNCHANGED <<idx, returns, assets, summary_stats>>
              \/ /\ sq.kind = "Series"
                 /\ sq.values = <<>>       \* line 53: iloc[-1] of nothing
                 /\ Crash("IndexError", 53)
                 /\ returns' = Series(rets)
                 /\ UNCHANGED <<idx, assets, summary_stats>>
              \/ /\ sq.kind = "Series"
                 /\ sq.values # <<>>
                 /\ \E normal \in ShapiroOutcomes(rets) :
                      IF normal.kind = "raise"
                      THEN /\ Crash("ValueError", 57)
                           /\ returns' = Series(rets)
                           /\ UNCHANGED <<idx, assets, summary_stats>>
                      ELSE /\ summary_stats' = Append(summary_stats,
                                SummaryRecord(name, mean, vol,
                                    TotalPerformance(sq.values),
                                    Sharpe(mean, vol), Skew(rets), Kurt(rets),
                                    normal))
                           /\ assets' = [p \in DOMAIN assets \cup {name} |->
                                           IF p = name THEN rets ELSE assets[p]]
                           /\ returns' = Series(rets)
                           /\ idx' = idx + 1
                           /\ pc' = IF idx = NumPresidents THEN "summary" ELSE "loop"
                           /\ error' = error
    /\ UNCHANGED <<ticker, interval, fetch_call, df_summary, anova_args, anova,
                   display, selected_president>>

\* lines 73-75: the summary table
Summary ==
    /\ pc = "summary"
    /\ df_summary' = [kind |-> "DataFrame", rows |-> summary_stats]
    /\ display' = display \cup {"summary_table"}
    /\ pc' = "anova"
    /\ UNCHANGED <<idx, ticker, interval, fetch_call, data, returns, assets,
                   summary_stats, anova_args, anova, selected_president, error>>

\* [assets[p] for p in presidents if not assets[p].empty], as period names
NonEmptyPeriods ==
    SelectSeq(PresidentNames, LAMBDA p : assets[p] # <<>>)

RECURSIVE Concat(_)
Concat(ss) == IF ss = <<>> THEN <<>> ELSE Head(ss) \o Concat(Tail(ss))

\* 5% critical values of the F distribution, times 10^4, by numerator
\* degrees of freedom 1..3 and denominator degrees of freedom 1..8.
FCritE4 ==
    << <<1614476, 185128, 101280, 77086, 66079, 59874, 55914, 53177>>,
       <<1995000, 190000, 95521, 69443, 57861, 51433, 47374, 44590>>,
       <<2157073, 191643, 92766, 65914, 54095, 47571, 43468, 40662>> >>

FCrit(dfn, dfd) == R(FCritE4[dfn][dfd], 10000)

F_onewayResult(f, p) ==
    [kind |-> "F_onewayResult", statistic |-> f, pvalue |-> p]

\* stats.f_oneway(*groups) for at least two non-empty groups:
\* [statistic, pvalue].
FOneway(groups) ==
    LET k == Len(groups)
        all == Concat(groups)
        N == Len(all)
        sq(s) == [i \in 1..Len(s) |-> RMul(s[i], s[i])]
        total == RSum(all)
        corr == RDiv(RMul(total, total), R(N, 1))
        sstot == RSub(RSum(sq(all)), corr)
        ssbn == RSub(RSum([g \in 1..k |->
                        RDiv(RMul(RSum(groups[g]), RSum(groups[g])),
                             R(Len(groups[g]), 1))]), corr)
        sswn == RSub(sstot, ssbn)
        dfbn == k - 1
        dfwn == N - k
        f == RDiv(RDiv(ssbn, R(dfbn, 1)), RDiv(sswn, R(dfwn, 1)))
    IN  IF \A g \in 1..k : Len(groups[g]) = 1
        THEN F_onewayResult(NaN, NaN)
        ELSE IF \A g \in 1..k : IsConstant(groups[g])
        THEN IF IsConstant(all)
             THEN F_onewayResult(NaN, NaN)
             ELSE F_onewayResult(PosInf, Zero)
        ELSE F_onewayResult(f, [kind |-> "sf", n |-> f.n, d |-> f.d,
                                dfn |-> dfbn, dfd |-> dfwn])

\* lines 78-81
Anova ==
    /\ pc = "anova"
    /\ anova_args' = [kind |-> "call", groups |-> NonEmptyPeriods]
    /\ IF Len(NonEmptyPeriods) < 2
       THEN /\ Crash("TypeError", 78)
            /\ UNCHANGED anova
       ELSE /\ anova' = FOneway([g \in 1..Len(NonEmptyPeriods) |->
                                    assets[NonEmptyPeriods[g]]])
            /\ pc' = "banner"
            /\ UNCHANGED error
    /\ UNCHANGED <<idx, ticker, interval, fetch_call, data, returns, assets,
                   summary_stats, df_summary, display, selected_president>>

\* the threshold of line 84
Alpha == R(5, 100)

\* p_val <= 0.05 on floats: a comparison with not-a-number is false.
LeAlpha(p) ==
    CASE p.kind = "nan" -> FALSE
      [] p.kind = "num" -> RLe(p, Alpha)
      [] p.kind = "sf" -> RLe(FCrit(p.dfn, p.dfd), R(p.n, p.d))

\* lines 83-87
Banner ==
    /\ pc = "banner"
    /\ display' = display \cup
            {"f_stat_line", IF LeAlpha(anova.pvalue) THEN "success" ELSE "warning"}
    /\ pc' = "render"
    /\ UNCHANGED <<idx, ticker, interval, fetch_call, data, returns, assets,
                   summary_stats, df_summary, anova_args, anova,
                   selected_president, error>>

\* lines 89-202: the charts, for the president picked in the select box
\* (line 108).  The charting library is external: the model draws the charts
\* and does not model a failure inside it.
Render ==
    /\ pc = "render"
    /\ \E p \in DOMAIN presidents :
          /\ selected_president' = p
          /\ returns' = Series(assets[p])
    /\ display' = display \cup {"charts"}
    /\ pc' = "done"
    /\ UNCHANGED <<idx, ticker, interval, fetch_call, data, assets,
                   summary_stats, df_summary, anova_args, anova, error>>

\* A rerun that keeps the previous pass's assets and summary_stats.
RerunCarryOver(t, i) ==
    /\ pc \in {"done", "crashed"}
    /\ pc' = "loop"
    /\ idx' = 1
    /\ ticker' = t
    /\ interval' = i
    /\ fetch_call' = None
    /\ data' = None
    /\ returns' = None
    /\ df_summary' = None
    /\ anova_args' = None
    /\ anova' = None
    /\ display' = {}
    /\ selected_president' = None
    /\ error' = NoError
    /\ UNCHANGED <<assets, summary_stats>>

\* A widget changed: the framework runs the script again from the top, in a
\* fresh namespace, with the widgets' current values (lines 31-36).
Rerun(t, i) ==
    /\ pc \in {"done", "crashed"}
    /\ pc' = "loop"
    /\ idx' = 1
    /\ ticker' = t
    /\ interval' = i
    /\ fetch_call' = None
    /\ data' = None
    /\ returns' = None
    /\ assets' = EmptyDict
    /\ summary_stats' = <<>>
    /\ df_summary' = None
    /\ anova_args' = None
    /\ anova' = None
    /\ display' = {}
    /\ selected_president' = None
    /\ error' = NoError

Next ==
    \/ Download
    \/ Body
    \/ Summary
    \/ Anova
    \/ Banner
    \/ Render
    \/ \E t \in Tickers, i \in 1..Len(IntervalOptions) : Rerun(t, IntervalOptions[i])

Spec == Init /\ [][Next]_vars

---------------------------------------------------------------------------
(* One iteration of the period loop, on every series of at most MaxLen     *)
(* prices in 1..MaxPrice: the script has just downloaded the first         *)
(* period's data.                                                          *)

InitPeriod ==
    /\ pc = "body"
    /\ idx = 1
    /\ ticker = DefaultTicker
    /\ interval = DefaultInterval
    /\ fetch_call = [kind |-> "call", ticker |-> DefaultTicker,
                     start |-> presidents[PresidentNames[1]].start,
                     end |-> presidents[PresidentNames[1]].end,
                     interval |-> DefaultInterval]
    /\ \E values \in SeqsUpTo(1..MaxPrice, MaxLen),
          kind \in {"Series", "DataFrame"} :
            data = [kind |-> kind, values |-> values]
    /\ returns = None
    /\ assets = EmptyDict
    /\ summary_stats = <<>>
    /\ df_summary = None
    /\ anova_args = None
    /\ anova = None
    /\ display = {}
    /\ selected_president = None
    /\ error = NoError

NextPeriod == Body

SpecPeriod == InitPeriod /\ [][NextPeriod]_vars

---------------------------------------------------------------------------
(* The claims.                                                             *)

BodyRan == pc # "body"
Fetched == data.values
Summarized == summary_stats # <<>>

\* (p[i] - p[i-1]) / p[i-1] for i = 2..n
ExpectedReturns(p) ==
    [i \in 1..(IF Len(p) = 0 THEN 0 ELSE Len(p) - 1) |->
        RDiv(R(p[i + 1] - p[i], 1), R(p[i], 1))]

\* C1 (SpecPeriod): for every fetched price series of length n >= 0 the
\* return computation does not raise and yields the n-1 returns
\* (p[i]-p[i-1])/p[i-1]; a series of length 0 or 1 yields the empty sequence.
C1_ReturnsOfEverySeries ==
    BodyRan =>
        /\ ~(error.type = "AttributeError" /\ error.line = 50)
        /\ returns.kind = "Series"
        /\ returns.values = ExpectedReturns(Fetched)

AllUndefined(rec) ==
    /\ IsNaN(rec.MeanReturn)
    /\ IsNaN(rec.Volatility)
    /\ IsNaN(rec.Skewness)
    /\ IsNaN(rec.Kurtosis)
    /\ IsNaN(rec.NormalityPValue)
    /\ IsNaN(rec.TotalPerformance)
    /\ IsNaN(rec.SharpeRatio)

\* C2 (SpecPeriod): for a period whose price series has 0 or 1 points the
\* summary step never raises and appends a record whose seven statistics are
\* all the undefined marker.
C2_EmptyPeriodAllUndefined ==
    (BodyRan /\ Len(Fetched) <= 1) =>
        /\ error = NoError
        /\ Len(summary_stats) = 1
        /\ AllUndefined(summary_stats[1])

\* C3 (Spec): a failure in one period does not abort the pass: a pass ends
\* in an exception only after every period was fetched and summarized.
C3_PeriodFailureContained ==
    pc = "crashed" => Len(summary_stats) = NumPresidents

LoopDone == pc \in {"anova", "banner", "render", "done"} \/
            (pc = "crashed" /\ error.line = 78)

EligiblePeriods == {p \in DOMAIN assets : Len(assets[p]) >= 2}

\* C4 (Spec): with fewer than 2 eligible periods the pass does not invoke the
\* ANOVA, shows no F-statistic line and no classification, shows an
\* "insufficient data" state and does not crash.
C4_InsufficientGroups ==
    (LoopDone /\ Cardinality(EligiblePeriods) < 2) =>
        /\ anova_args.kind = "none"
        /\ error = NoError
        /\ display \cap {"f_stat_line", "success", "warning"} = {}
        /\ (pc \in {"render", "done"} => "insufficient_data" \in display)

\* C5 (Spec): the groups passed to the ANOVA are exactly the periods whose
\* return series has at least 2 elements.
C5_AnovaGroups ==
    anova_args.kind = "call" =>
        {anova_args.groups[i] : i \in 1..Len(anova_args.groups)} = EligiblePeriods

\* C6 (SpecPeriod): for every period whose returns have zero standard
\* deviation the Sharpe Ratio of its record is the undefined marker (not
\* zero, not finite, not an infinity), and no division error is raised.
C6_ZeroVolatilitySharpe ==
    (BodyRan /\ Summarized /\ IsZero(summary_stats[1].Volatility)) =>
        /\ IsNaN(summary_stats[1].SharpeRatio)
        /\ error.type # "ZeroDivisionError"

\* the product of (1 + r[i]) over the returns, minus 1
Compounded(r) == RSub(RProd([i \in 1..Len(r) |-> RAdd(One, r[i])]), One)

\* C7 (SpecPeriod): for every period with at least 2 price points the Total
\* Performance of its record is last_price/first_price - 1 of the fetched
\* series, and equals the compounded product of (1 + r[i]) over its returns
\* minus 1.
C7_TotalPerformance ==
    (BodyRan /\ Summarized /\ Len(Fetched) >= 2) =>
        /\ summary_stats[1].TotalPerformance =
              RSub(RDiv(R(Fetched[Len(Fetched)], 1), R(Fetched[1], 1)), One)
        /\ summary_stats[1].TotalPerformance = Compounded(returns.values)

C7_Witness ==
    /\ BodyRan
    /\ Summarized
    /\ Len(Fetched) >= 4
    /\ Fetched[2] # Fetched[1]
    /\ summary_stats[1].TotalPerformance # Zero
    /\ summary_stats[1].TotalPerformance = Compounded(returns.values)

\* C8 (Spec): whenever the comparison is displayed exactly one banner is
\* shown, "significant" iff p <= 0.05 and "no significant difference" iff
\* p > 0.05; a not-a-number p-value is never classified as "no significant
\* difference".
C8_Classification ==
    "f_stat_line" \in display =>
        LET p == anova.pvalue
        IN  /\ Cardinality(display \cap {"success", "warning"}) = 1
            /\ ("success" \in display) <=> LeAlpha(p)
            /\ ("warning" \in display) <=> (~IsNaN(p) /\ ~LeAlpha(p))

\* the interval values the provider's download accepts for daily, weekly and
\* monthly sampling
ProviderIntervals == {"1d", "1wk", "1mo"}

\* C9 (Spec): every fetch call receives the period's own start and end dates
\* and an interval that is a member of the provider's enumeration.
C9_FetchArguments ==
    pc = "body" =>
        /\ fetch_call.start = presidents[PresidentNames[idx]].start
        /\ fetch_call.end = presidents[PresidentNames[idx]].end
        /\ fetch_call.interval \in ProviderIntervals

\* C10 (Spec): in every pass the summary table holds exactly one record per
\* configured period, in configuration order, and the returns map exactly
\* one series per configured period; during the loop both hold exactly the
\* periods of this pass processed so far.
C10_FreshPerPass ==
    /\ Len(summary_stats) = Cardinality(DOMAIN assets)
    /\ pc \in {"loop", "body"} =>
          /\ Len(summary_stats) = idx - 1
          /\ DOMAIN assets = {PresidentNames[i] : i \in 1..(idx - 1)}
    /\ df_summary.kind = "DataFrame" =>
          /\ Len(df_summary.rows) = NumPresidents
          /\ \A i \in 1..NumPresidents :
                df_summary.rows[i].President = PresidentNames[i]
          /\ DOMAIN assets = DOMAIN presidents

C10_Witness ==
    /\ df_summary.kind = "DataFrame"
    /\ ticker # DefaultTicker
    /\ interval # DefaultInterval
    /\ Len(df_summary.rows) = NumPresidents
    /\ DOMAIN assets = DOMAIN presidents

===========================================================================
